---- MODULE Spec2Model ----
(***************************************************************************)
(* netcheck: the aggregation loop runLoop, its sample sources (realPinger  *)
(* and the tests' mockPingSource), the ticker, the cancellation context    *)
(* and the display sink, as one state machine.                             *)
(*                                                                         *)
(* One step of runLoop's for-loop (the frame-limit check, the select and   *)
(* the handling of the chosen case, including the render) is one action.   *)
(* A send on a source's unbuffered channel and runLoop's receive of it are *)
(* one rendezvous, so they are one action (LoopSample).                    *)
(***************************************************************************)
EXTENDS Integers, Sequences, FiniteSets, TLC

\* ---------------------------------------------------------------- bounds
MaxSamples == 2        \* samples one source hands over at most
MaxTicks == 2          \* the ticker stops once the histories hold that many elements

\* ------------------------------------------------------ program constants
maxLen == 40
maxHeight == 10
NumSources == 2

Sources == 1..NumSources
FrameLimits == {0, 1, 2}                \* -frames: unlimited, one, two
Values == {1, 12}                       \* RTTs in ms: one and two digits
Widths == {8, 80}                       \* terminal widths: below/above 10
addresses == <<"192.168.1.1", "1.1.1.1">>

NoFrame == [waiting |-> FALSE, legends |-> <<>>,
            series |-> <<>>, graphWidth |-> 0, upper10 |-> 0,
            header |-> <<>>, footer |-> ""]

VARIABLES
    caller,        \* "run" (realPinger sources, deferred cancel) or "test" (mockPingSource)
    maxFrames,     \* runLoop's maxFrames argument
    nvalues,       \* per source: len(m.values) of a mockPingSource
    pc,            \* "starting", "loop", "done"
    nstarted,      \* how many sources the start loop has started
    src,           \* per source: "unstarted", "ready"/"closed" (mock), "running"/"sending"/"stopped" (real), "exited"
    left,          \* per source: samples still to hand over (mock: len(values) - position)
    pend,          \* per source: the value a realPinger's OnRecv is blocked sending
    ctxDone,       \* ctx.Done() is closed
    tickReady,     \* ticker.C holds a tick
    chanValid,     \* per source: cases[i+2].Chan is not the nil Value
    rtts, hasData, maxRTT, frameCount, data,
    termLog,       \* the operations performed on the Terminal, in order
    lastFrame,     \* the frame text of the last successful frame write
    result,        \* runLoop's return value
    exitVia,       \* which return statement produced it
    lastSent,      \* per source: the last value the source handed over (0: none)
    chosen,        \* the case the last select returned: 0 ctx, 1 tick, i+1 source i (-1: none yet)
    stdout,        \* run: the cursor sequences printed on standard output
    exitCode,      \* main: the process's exit code (-1: still running)
    hist,          \* appendData called repeatedly: the history it returned last
    prevHist,      \* ... the history it was called with
    inputs,        \* ... the samples appended so far, in order
    todo,          \* ... the samples still to append, in order
    rfArgs,        \* renderFrame called on its own: the arguments
    rfRet          \* ... the frame it returned

vars == <<caller, maxFrames, nvalues, pc, nstarted, src, left, pend,
          ctxDone, tickReady, chanValid, rtts, hasData, maxRTT,
          frameCount, data, termLog, lastFrame, result, exitVia, lastSent,
          chosen, stdout, exitCode, hist, prevHist, inputs, todo, rfArgs,
          rfRet>>

runVars == <<stdout, exitCode>>
fnVars == <<hist, prevHist, inputs, todo, rfArgs, rfRet>>
auxVars == <<runVars, fnVars>>

srcVars == <<src, left, pend, lastSent>>
loopVars == <<chanValid, rtts, hasData, maxRTT, frameCount, data>>
termVars == <<termLog, lastFrame>>
cfgVars == <<caller, maxFrames, nvalues>>

\* ------------------------------------------------------------ pure helpers
Max(a, b) == IF a > b THEN a ELSE b
Min(a, b) == IF a < b THEN a ELSE b

\* the history drops its newest element when it is full
appendData_keepOldest(d, rtt) ==
    LET d1 == Append(d, rtt)
    IN  IF Len(d1) > maxLen THEN SubSeq(d1, 1, maxLen) ELSE d1

\* the history is cut one element early
appendData_early(d, rtt) ==
    LET d1 == Append(d, rtt)
    IN  IF Len(d1) >= maxLen THEN SubSeq(d1, 2, Len(d1)) ELSE d1

\* float64(rtt) is exact: a time.Duration in milliseconds is below 2^44,
\* every integer up to 2^53 is a float64
appendData(d, rtt) ==
    LET d1 == Append(d, rtt)
    IN  IF Len(d1) > maxLen THEN SubSeq(d1, 2, Len(d1)) ELSE d1

\* fmt "%02d": decimal digits, zero-padded to two
RECURSIVE Digits(_)
Digits(n) == IF n < 10 THEN <<n>> ELSE Append(Digits(n \div 10), n % 10)

Pad02(n) == IF n < 10 THEN <<0, n>> ELSE Digits(n)

LegendLabel(i) == IF i > 1 THEN "CloudFlare" ELSE "Gateway"
HeaderLabel(i) == IF i > 1 THEN "CloudFlare DNS" ELSE "gateway"

MaxDataLen(d) ==
    LET lens == {Len(d[i]) : i \in DOMAIN d}
    IN  IF lens = {} THEN 0 ELSE CHOOSE m \in lens : \A l \in lens : l <= m

\* the plot as wide as the longest history
GraphWidth_full(d, width) ==
    LET w0 == width - 10
        w1 == IF MaxDataLen(d) < w0 THEN MaxDataLen(d) ELSE w0
    IN  IF w1 < 1 THEN 1 ELSE w1

\* graphWidth := width - 10, lowered to maxDataLen-1, raised to 1
GraphWidth(d, width) ==
    LET w0 == width - 10
        w1 == IF MaxDataLen(d) - 1 < w0 THEN MaxDataLen(d) - 1 ELSE w0
    IN  IF w1 < 1 THEN 1 ELSE w1

\* tenths of a millisecond: padding = max(1, 0.1 * maxRTT)
Padding10(m) == IF m < 10 THEN 10 ELSE m

\* one non-empty history is enough to plot
CanPlot_any(d) == \E i \in DOMAIN d : Len(d[i]) # 0

CanPlot(d) == \A i \in DOMAIN d : Len(d[i]) # 0

\* series and legends swapped when the first RTT is the higher one
renderFrame_swap(addrs, d, r, m, width) ==
    LET swap == Len(r) = 2 /\ r[1] > r[2]
        l == [i \in DOMAIN r |-> <<LegendLabel(i), Pad02(r[i])>>]
    IN  [header     |-> [i \in DOMAIN addrs |-> <<addrs[i], HeaderLabel(i)>>],
         waiting    |-> ~CanPlot(d),
         legends    |-> IF swap THEN <<l[2], l[1]>> ELSE l,
         series     |-> IF ~CanPlot(d) THEN <<>>
                        ELSE IF swap THEN <<d[2], d[1]>> ELSE d,
         graphWidth |-> GraphWidth(d, width),
         upper10    |-> 10 * m + Padding10(m),
         footer     |-> "Press Control-C to exit"]

renderFrame(addrs, d, r, m, width) ==
    [header     |-> [i \in DOMAIN addrs |-> <<addrs[i], HeaderLabel(i)>>],
     waiting    |-> ~CanPlot(d),
     legends    |-> [i \in DOMAIN r |-> <<LegendLabel(i), Pad02(r[i])>>],
     series     |-> IF CanPlot(d) THEN d ELSE <<>>,
     graphWidth |-> GraphWidth(d, width),
     upper10    |-> 10 * m + Padding10(m),
     footer     |-> "Press Control-C to exit"]

\* ---------------------------------------------------------------- display
\* what the two Writes of one render return: both nil, the first an error,
\* the second an error
WriteOutcomes == {"ok", "frameErr", "clrErr"}

\* Flush called whatever the writes returned
RenderOps_flushAlways(outcome) ==
    CASE outcome = "ok"       -> <<"MoveCursor", "WriteFrame", "WriteClr", "Flush">>
      [] outcome = "frameErr" -> <<"MoveCursor", "WriteFrameErr", "Flush">>
      [] outcome = "clrErr"   -> <<"MoveCursor", "WriteFrame", "WriteClrErr", "Flush">>

\* the screen cleared again in front of every frame
RenderOps_clearEach(outcome) ==
    CASE outcome = "ok"       -> <<"Clear", "MoveCursor", "WriteFrame", "WriteClr", "Flush">>
      [] outcome = "frameErr" -> <<"Clear", "MoveCursor", "WriteFrameErr">>
      [] outcome = "clrErr"   -> <<"Clear", "MoveCursor", "WriteFrame", "WriteClrErr">>

RenderOps(outcome) ==
    CASE outcome = "ok"       -> <<"MoveCursor", "WriteFrame", "WriteClr", "Flush">>
      [] outcome = "frameErr" -> <<"MoveCursor", "WriteFrameErr">>
      [] outcome = "clrErr"   -> <<"MoveCursor", "WriteFrame", "WriteClrErr">>

RenderErr(outcome) ==
    IF outcome = "frameErr" THEN [kind |-> "error", what |-> "write frame", addr |-> ""]
    ELSE [kind |-> "error", what |-> "clear screen", addr |-> ""]

CountOps(log, op) == Cardinality({k \in DOMAIN log : log[k] = op})

\* frames rendered: render() got both writes through
FramesWritten == CountOps(termLog, "WriteClr")

Nil == [kind |-> "nil", what |-> "", addr |-> ""]
NoResult == [kind |-> "none", what |-> "", addr |-> ""]

\* ------------------------------------------------------------------- Init
NoArgs == [d |-> <<>>, r |-> <<>>, m |-> 0, width |-> 0]

\* runLoop is entered
InitLoop ==
    /\ caller \in {"run", "test"}
    /\ maxFrames \in FrameLimits
    /\ pc = "starting"
    /\ nstarted = 0
    /\ src = [i \in Sources |-> "unstarted"]
    /\ nvalues \in [Sources -> 0..MaxSamples]
    /\ (caller = "run" => nvalues = [i \in Sources |-> MaxSamples])
    /\ left = nvalues
    /\ pend = [i \in Sources |-> 0]
    /\ ctxDone = FALSE
    /\ tickReady = FALSE
    /\ chanValid = [i \in Sources |-> FALSE]
    /\ rtts = [i \in Sources |-> 0]
    /\ hasData = [i \in Sources |-> FALSE]
    /\ maxRTT = 0
    /\ frameCount = 0
    /\ data = [i \in Sources |-> <<>>]
    /\ termLog = <<>>
    /\ lastFrame = NoFrame
    /\ result = NoResult
    /\ exitVia = "none"
    /\ lastSent = [i \in Sources |-> 0]
    /\ chosen = -1

\* no function is called on its own
InitFn ==
    /\ hist = <<>>
    /\ prevHist = <<>>
    /\ inputs = <<>>
    /\ todo = <<>>
    /\ rfArgs = NoArgs
    /\ rfRet = NoFrame

\* run has printed the hide-cursor sequence before it calls runLoop
InitRun ==
    /\ stdout = IF caller = "run" THEN <<"hide">> ELSE <<>>
    /\ exitCode = -1

Init == InitLoop /\ InitRun /\ InitFn

\* ------------------------------------------------------- runLoop: starting
\* Clear and Flush moved in front of the start loop's later iterations
StartOk_clearEarly(i) ==
    /\ pc = "starting"
    /\ i = nstarted + 1
    /\ nstarted' = i
    /\ src' = [src EXCEPT ![i] = IF caller = "run" THEN "running" ELSE "ready"]
    /\ chanValid' = [chanValid EXCEPT ![i] = TRUE]
    /\ pc' = IF i = NumSources THEN "loop" ELSE pc
    /\ termLog' = IF i = 1 THEN termLog \o <<"Clear", "Flush">> ELSE termLog
    /\ UNCHANGED <<auxVars, cfgVars, left, pend, lastSent, ctxDone, tickReady,
                   rtts, hasData, maxRTT, frameCount, data, chosen,
                   lastFrame, result, exitVia>>

\* src.Start(ctx) of source i succeeds; after the last one: Clear, Flush,
\* the loop's locals, the ticker and the select cases.
StartOk(i) ==
    /\ pc = "starting"
    /\ i = nstarted + 1
    /\ nstarted' = i
    /\ src' = [src EXCEPT ![i] = IF caller = "run" THEN "running" ELSE "ready"]
    /\ chanValid' = [chanValid EXCEPT ![i] = TRUE]
    /\ IF i = NumSources
       THEN /\ pc' = "loop"
            /\ termLog' = termLog \o <<"Clear", "Flush">>
       ELSE /\ pc' = pc
            /\ termLog' = termLog
    /\ UNCHANGED <<auxVars, cfgVars, left, pend, lastSent, ctxDone, tickReady,
                   rtts, hasData, maxRTT, frameCount, data, chosen,
                   lastFrame, result, exitVia>>

\* realPinger.Start: probing.NewPinger fails
StartFail(i) ==
    /\ pc = "starting"
    /\ i = nstarted + 1
    /\ caller = "run"
    /\ pc' = "done"
    /\ result' = [kind |-> "error", what |-> "start ping", addr |-> addresses[i]]
    /\ exitVia' = "start"
    /\ UNCHANGED <<auxVars, cfgVars, nstarted, srcVars, ctxDone, tickReady,
                   loopVars, termVars, chosen>>

\* ------------------------------------------------------- runLoop: for loop
LimitReached == maxFrames > 0 /\ frameCount >= maxFrames

\* ready as soon as one target has data
Ready_any(h) == \E i \in Sources : h[i]

\* the ready test left out
Ready_always(h) == TRUE

Ready(h) == \A i \in Sources : h[i]

LoopLimit ==
    /\ pc = "loop"
    /\ LimitReached
    /\ pc' = "done"
    /\ result' = Nil
    /\ exitVia' = "limit"
    /\ UNCHANGED <<auxVars, cfgVars, nstarted, srcVars, ctxDone, tickReady,
                   loopVars, termVars, chosen>>

\* chosen == 0, returning ctx.Err()
LoopCancel_err ==
    /\ pc = "loop"
    /\ ~LimitReached
    /\ ctxDone
    /\ pc' = "done"
    /\ result' = [kind |-> "error", what |-> "context canceled", addr |-> ""]
    /\ exitVia' = "ctx"
    /\ chosen' = 0
    /\ UNCHANGED <<auxVars, cfgVars, nstarted, srcVars, ctxDone, tickReady,
                   loopVars, termVars>>

\* chosen == 0, draining a pending tick before returning
LoopCancel_drain ==
    /\ pc = "loop"
    /\ ~LimitReached
    /\ ctxDone
    /\ pc' = "done"
    /\ result' = Nil
    /\ exitVia' = "ctx"
    /\ chosen' = 0
    /\ tickReady' = FALSE
    /\ UNCHANGED <<auxVars, cfgVars, nstarted, srcVars, ctxDone,
                   loopVars, termVars>>

\* chosen == 0
LoopCancel ==
    /\ pc = "loop"
    /\ ~LimitReached
    /\ ctxDone
    /\ pc' = "done"
    /\ result' = Nil
    /\ exitVia' = "ctx"
    /\ chosen' = 0
    /\ UNCHANGED <<auxVars, cfgVars, nstarted, srcVars, ctxDone, tickReady,
                   loopVars, termVars>>

\* the frame of a tick left uncounted
TickCounts_none(n) == n

\* chosen == 1
TickCounts(n) == n + 1

\* chosen == 1, the histories growing without the window
LoopTick_unbounded ==
    /\ pc = "loop"
    /\ ~LimitReached
    /\ tickReady
    /\ tickReady' = FALSE
    /\ IF Ready(hasData)
       THEN \E outcome \in WriteOutcomes, w \in Widths :
              LET d == [i \in Sources |-> Append(data[i], rtts[i])]
              IN  /\ data' = d
                  /\ termLog' = termLog \o RenderOps(outcome)
                  /\ lastFrame' = IF outcome = "frameErr" THEN lastFrame
                                  ELSE renderFrame(addresses, d, rtts, maxRTT, w)
                  /\ IF outcome = "ok"
                     THEN /\ frameCount' = TickCounts(frameCount)
                          /\ UNCHANGED <<pc, result, exitVia>>
                     ELSE /\ pc' = "done"
                          /\ result' = RenderErr(outcome)
                          /\ exitVia' = "render"
                          /\ UNCHANGED frameCount
       ELSE UNCHANGED <<data, termVars, frameCount, pc, result, exitVia>>
    /\ chosen' = 1
    /\ UNCHANGED <<auxVars, cfgVars, nstarted, srcVars, ctxDone, chanValid,
                   rtts, hasData, maxRTT>>

\* chosen == 1, appending only for the sources whose channel is still open
LoopTick_skipClosed ==
    /\ pc = "loop"
    /\ ~LimitReached
    /\ tickReady
    /\ tickReady' = FALSE
    /\ IF Ready(hasData)
       THEN \E outcome \in WriteOutcomes, w \in Widths :
              LET d == [i \in Sources |-> IF chanValid[i] THEN appendData(data[i], rtts[i])
                                        ELSE data[i]]
              IN  /\ data' = d
                  /\ termLog' = termLog \o RenderOps(outcome)
                  /\ lastFrame' = IF outcome = "frameErr" THEN lastFrame
                                  ELSE renderFrame(addresses, d, rtts, maxRTT, w)
                  /\ IF outcome = "ok"
                     THEN /\ frameCount' = TickCounts(frameCount)
                          /\ UNCHANGED <<pc, result, exitVia>>
                     ELSE /\ pc' = "done"
                          /\ result' = RenderErr(outcome)
                          /\ exitVia' = "render"
                          /\ UNCHANGED frameCount
       ELSE UNCHANGED <<data, termVars, frameCount, pc, result, exitVia>>
    /\ chosen' = 1
    /\ UNCHANGED <<auxVars, cfgVars, nstarted, srcVars, ctxDone, chanValid,
                   rtts, hasData, maxRTT>>

LoopTick ==
    /\ pc = "loop"
    /\ ~LimitReached
    /\ tickReady
    /\ tickReady' = FALSE
    /\ IF Ready(hasData)
       THEN \E outcome \in WriteOutcomes, w \in Widths :
              LET d == [i \in Sources |-> appendData(data[i], rtts[i])]
              IN  /\ data' = d
                  /\ termLog' = termLog \o RenderOps(outcome)
                  /\ lastFrame' = IF outcome = "frameErr" THEN lastFrame
                                  ELSE renderFrame(addresses, d, rtts, maxRTT, w)
                  /\ IF outcome = "ok"
                     THEN /\ frameCount' = TickCounts(frameCount)
                          /\ UNCHANGED <<pc, result, exitVia>>
                     ELSE /\ pc' = "done"
                          /\ result' = RenderErr(outcome)
                          /\ exitVia' = "render"
                          /\ UNCHANGED frameCount
       ELSE UNCHANGED <<data, termVars, frameCount, pc, result, exitVia>>
    /\ chosen' = 1
    /\ UNCHANGED <<auxVars, cfgVars, nstarted, srcVars, ctxDone, chanValid,
                   rtts, hasData, maxRTT>>

\* a source is blocked in its send on the unbuffered channel
Offers(i) ==
    \/ src[i] = "ready" /\ left[i] > 0
    \/ src[i] = "sending"

Offered(i) == IF src[i] = "sending" THEN {pend[i]} ELSE Values

\* chosen >= 2, ok, with maxRTT overwritten by every sample
LoopSample_lastMax(i) ==
    /\ pc = "loop"
    /\ ~LimitReached
    /\ chanValid[i]
    /\ Offers(i)
    /\ \E v \in Offered(i) :
         LET r == [rtts EXCEPT ![i] = v]
             h == [hasData EXCEPT ![i] = TRUE]
             m == v
         IN  /\ rtts' = r
             /\ hasData' = h
             /\ maxRTT' = m
             /\ lastSent' = [lastSent EXCEPT ![i] = v]
             /\ IF Ready(h)
                THEN \E outcome \in WriteOutcomes, w \in Widths :
                       /\ termLog' = termLog \o RenderOps(outcome)
                       /\ lastFrame' = IF outcome = "frameErr" THEN lastFrame
                                       ELSE renderFrame(addresses, data, r, m, w)
                       /\ IF outcome = "ok"
                          THEN /\ frameCount' = frameCount
                               /\ UNCHANGED <<pc, result, exitVia>>
                          ELSE /\ pc' = "done"
                               /\ result' = RenderErr(outcome)
                               /\ exitVia' = "render"
                               /\ UNCHANGED frameCount
                ELSE UNCHANGED <<termVars, frameCount, pc, result, exitVia>>
    /\ src' = [src EXCEPT ![i] = IF src[i] = "sending" THEN "running" ELSE "ready"]
    /\ left' = [left EXCEPT ![i] = IF src[i] = "sending" THEN left[i] ELSE left[i] - 1]
    /\ pend' = [pend EXCEPT ![i] = 0]
    /\ chosen' = i + 1
    /\ UNCHANGED <<auxVars, cfgVars, nstarted, ctxDone, tickReady, chanValid,
                   data>>

\* chosen >= 2, ok, with the ready test made before hasData is updated
LoopSample_stale(i) ==
    /\ pc = "loop"
    /\ ~LimitReached
    /\ chanValid[i]
    /\ Offers(i)
    /\ \E v \in Offered(i) :
         LET r == [rtts EXCEPT ![i] = v]
             h == [hasData EXCEPT ![i] = TRUE]
             m == IF v > maxRTT THEN v ELSE maxRTT
         IN  /\ rtts' = r
             /\ hasData' = h
             /\ maxRTT' = m
             /\ lastSent' = [lastSent EXCEPT ![i] = v]
             /\ IF Ready(hasData)
                THEN \E outcome \in WriteOutcomes, w \in Widths :
                       /\ termLog' = termLog \o RenderOps(outcome)
                       /\ lastFrame' = IF outcome = "frameErr" THEN lastFrame
                                       ELSE renderFrame(addresses, data, r, m, w)
                       /\ IF outcome = "ok"
                          THEN /\ frameCount' = frameCount
                               /\ UNCHANGED <<pc, result, exitVia>>
                          ELSE /\ pc' = "done"
                               /\ result' = RenderErr(outcome)
                               /\ exitVia' = "render"
                               /\ UNCHANGED frameCount
                ELSE UNCHANGED <<termVars, frameCount, pc, result, exitVia>>
    /\ src' = [src EXCEPT ![i] = IF src[i] = "sending" THEN "running" ELSE "ready"]
    /\ left' = [left EXCEPT ![i] = IF src[i] = "sending" THEN left[i] ELSE left[i] - 1]
    /\ pend' = [pend EXCEPT ![i] = 0]
    /\ chosen' = i + 1
    /\ UNCHANGED <<auxVars, cfgVars, nstarted, ctxDone, tickReady, chanValid,
                   data>>

\* chosen >= 2, ok, with the sample also appended to the target's history
LoopSample_append(i) ==
    /\ pc = "loop"
    /\ ~LimitReached
    /\ chanValid[i]
    /\ Offers(i)
    /\ \E v \in Offered(i) :
         LET r == [rtts EXCEPT ![i] = v]
             h == [hasData EXCEPT ![i] = TRUE]
             m == IF v > maxRTT THEN v ELSE maxRTT
         IN  /\ rtts' = r
             /\ hasData' = h
             /\ maxRTT' = m
             /\ lastSent' = [lastSent EXCEPT ![i] = v]
             /\ IF Ready(h)
                THEN \E outcome \in WriteOutcomes, w \in Widths :
                       /\ termLog' = termLog \o RenderOps(outcome)
                       /\ lastFrame' = IF outcome = "frameErr" THEN lastFrame
                                       ELSE renderFrame(addresses, data, r, m, w)
                       /\ IF outcome = "ok"
                          THEN /\ frameCount' = frameCount
                               /\ UNCHANGED <<pc, result, exitVia>>
                          ELSE /\ pc' = "done"
                               /\ result' = RenderErr(outcome)
                               /\ exitVia' = "render"
                               /\ UNCHANGED frameCount
                ELSE UNCHANGED <<termVars, frameCount, pc, result, exitVia>>
    /\ src' = [src EXCEPT ![i] = IF src[i] = "sending" THEN "running" ELSE "ready"]
    /\ left' = [left EXCEPT ![i] = IF src[i] = "sending" THEN left[i] ELSE left[i] - 1]
    /\ pend' = [pend EXCEPT ![i] = 0]
    /\ chosen' = i + 1
    /\ UNCHANGED <<auxVars, cfgVars, nstarted, ctxDone, tickReady, chanValid>>
    /\ data' = [data EXCEPT ![i] = appendData(@, lastSent'[i])]

\* chosen >= 2, ok, with the comparison against maxRTT reversed
LoopSample_minRTT(i) ==
    /\ pc = "loop"
    /\ ~LimitReached
    /\ chanValid[i]
    /\ Offers(i)
    /\ \E v \in Offered(i) :
         LET r == [rtts EXCEPT ![i] = v]
             h == [hasData EXCEPT ![i] = TRUE]
             m == IF v < maxRTT THEN v ELSE maxRTT
         IN  /\ rtts' = r
             /\ hasData' = h
             /\ maxRTT' = m
             /\ lastSent' = [lastSent EXCEPT ![i] = v]
             /\ IF Ready(h)
                THEN \E outcome \in WriteOutcomes, w \in Widths :
                       /\ termLog' = termLog \o RenderOps(outcome)
                       /\ lastFrame' = IF outcome = "frameErr" THEN lastFrame
                                       ELSE renderFrame(addresses, data, r, m, w)
                       /\ IF outcome = "ok"
                          THEN /\ frameCount' = frameCount
                               /\ UNCHANGED <<pc, result, exitVia>>
                          ELSE /\ pc' = "done"
                               /\ result' = RenderErr(outcome)
                               /\ exitVia' = "render"
                               /\ UNCHANGED frameCount
                ELSE UNCHANGED <<termVars, frameCount, pc, result, exitVia>>
    /\ src' = [src EXCEPT ![i] = IF src[i] = "sending" THEN "running" ELSE "ready"]
    /\ left' = [left EXCEPT ![i] = IF src[i] = "sending" THEN left[i] ELSE left[i] - 1]
    /\ pend' = [pend EXCEPT ![i] = 0]
    /\ chosen' = i + 1
    /\ UNCHANGED <<auxVars, cfgVars, nstarted, ctxDone, tickReady, chanValid,
                   data>>

\* chosen >= 2, ok: the rendezvous of source i's send with the receive
LoopSample(i) ==
    /\ pc = "loop"
    /\ ~LimitReached
    /\ chanValid[i]
    /\ Offers(i)
    /\ \E v \in Offered(i) :
         LET r == [rtts EXCEPT ![i] = v]
             h == [hasData EXCEPT ![i] = TRUE]
             m == IF v > maxRTT THEN v ELSE maxRTT
         IN  /\ rtts' = r
             /\ hasData' = h
             /\ maxRTT' = m
             /\ lastSent' = [lastSent EXCEPT ![i] = v]
             /\ IF Ready(h)
                THEN \E outcome \in WriteOutcomes, w \in Widths :
                       /\ termLog' = termLog \o RenderOps(outcome)
                       /\ lastFrame' = IF outcome = "frameErr" THEN lastFrame
                                       ELSE renderFrame(addresses, data, r, m, w)
                       /\ IF outcome = "ok"
                          THEN /\ frameCount' = frameCount
                               /\ UNCHANGED <<pc, result, exitVia>>
                          ELSE /\ pc' = "done"
                               /\ result' = RenderErr(outcome)
                               /\ exitVia' = "render"
                               /\ UNCHANGED frameCount
                ELSE UNCHANGED <<termVars, frameCount, pc, result, exitVia>>
    /\ src' = [src EXCEPT ![i] = IF src[i] = "sending" THEN "running" ELSE "ready"]
    /\ left' = [left EXCEPT ![i] = IF src[i] = "sending" THEN left[i] ELSE left[i] - 1]
    /\ pend' = [pend EXCEPT ![i] = 0]
    /\ chosen' = i + 1
    /\ UNCHANGED <<auxVars, cfgVars, nstarted, ctxDone, tickReady, chanValid,
                   data>>

AllClosed(cv) == \A j \in Sources : ~cv[j]

\* chosen >= 2 without the !ok test: the closed channel's zero value is recorded
LoopClose_zero(i) ==
    /\ pc = "loop"
    /\ ~LimitReached
    /\ chanValid[i]
    /\ src[i] = "closed"
    /\ LET cv == [chanValid EXCEPT ![i] = FALSE]
       IN  /\ chanValid' = cv
           /\ IF AllClosed(cv)
              THEN /\ pc' = "done"
                   /\ result' = Nil
                   /\ exitVia' = "closed"
              ELSE UNCHANGED <<pc, result, exitVia>>
    /\ rtts' = [rtts EXCEPT ![i] = 0]
    /\ chosen' = i + 1
    /\ UNCHANGED <<auxVars, cfgVars, nstarted, srcVars, ctxDone, tickReady,
                   hasData, maxRTT, frameCount, data, termVars>>

\* chosen >= 2, !ok: returning on the first closed channel
LoopClose_first(i) ==
    /\ pc = "loop"
    /\ ~LimitReached
    /\ chanValid[i]
    /\ src[i] = "closed"
    /\ chanValid' = [chanValid EXCEPT ![i] = FALSE]
    /\ pc' = "done"
    /\ result' = Nil
    /\ exitVia' = "closed"
    /\ chosen' = i + 1
    /\ UNCHANGED <<auxVars, cfgVars, nstarted, srcVars, ctxDone, tickReady,
                   rtts, hasData, maxRTT, frameCount, data, termVars>>

\* chosen >= 2, !ok, with the closed source's has-data mark taken back
LoopClose_clearMark(i) ==
    /\ pc = "loop"
    /\ ~LimitReached
    /\ chanValid[i]
    /\ src[i] = "closed"
    /\ LET cv == [chanValid EXCEPT ![i] = FALSE]
       IN  /\ chanValid' = cv
           /\ IF AllClosed(cv)
              THEN /\ pc' = "done"
                   /\ result' = Nil
                   /\ exitVia' = "closed"
              ELSE UNCHANGED <<pc, result, exitVia>>
    /\ chosen' = i + 1
    /\ UNCHANGED <<auxVars, cfgVars, nstarted, srcVars, ctxDone, tickReady,
                   rtts, maxRTT, frameCount, data, termVars>>
    /\ hasData' = [hasData EXCEPT ![i] = FALSE]

\* chosen >= 2, !ok: source i's channel is closed
LoopClose(i) ==
    /\ pc = "loop"
    /\ ~LimitReached
    /\ chanValid[i]
    /\ src[i] = "closed"
    /\ LET cv == [chanValid EXCEPT ![i] = FALSE]
       IN  /\ chanValid' = cv
           /\ IF AllClosed(cv)
              THEN /\ pc' = "done"
                   /\ result' = Nil
                   /\ exitVia' = "closed"
              ELSE UNCHANGED <<pc, result, exitVia>>
    /\ chosen' = i + 1
    /\ UNCHANGED <<auxVars, cfgVars, nstarted, srcVars, ctxDone, tickReady,
                   rtts, hasData, maxRTT, frameCount, data, termVars>>

\* ------------------------------------------------------------- environment
\* time.Ticker: a tick is put into ticker.C (capacity 1) when it is empty
Tick ==
    /\ pc = "loop"
    /\ ~tickReady
    /\ \A i \in Sources : Len(data[i]) < MaxTicks
    /\ tickReady' = TRUE
    /\ UNCHANGED <<auxVars, cfgVars, pc, nstarted, srcVars, ctxDone, loopVars, termVars,
                   result, exitVia, chosen>>

\* the interrupt signal's goroutine ending the process itself: cancel(); os.Exit(0)
Cancel_exit ==
    /\ ~ctxDone
    /\ pc # "done"
    /\ ctxDone' = TRUE
    /\ exitCode' = IF caller = "run" THEN 0 ELSE exitCode
    /\ UNCHANGED <<stdout, fnVars, cfgVars, pc, nstarted, srcVars, tickReady,
                   loopVars, termVars, result, exitVia, chosen>>

\* the interrupt signal's goroutine in run, or the test's cancel()
Cancel ==
    /\ ~ctxDone
    /\ pc # "done"
    /\ ctxDone' = TRUE
    /\ UNCHANGED <<auxVars, cfgVars, pc, nstarted, srcVars, tickReady, loopVars,
                   termVars, result, exitVia, chosen>>

\* run: defer cancel()
DeferCancel ==
    /\ caller = "run"
    /\ pc = "done"
    /\ ~ctxDone
    /\ ctxDone' = TRUE
    /\ UNCHANGED <<auxVars, cfgVars, pc, nstarted, srcVars, tickReady, loopVars,
                   termVars, result, exitVia, chosen>>

\* --------------------------------------------------------- mockPingSource
\* the range over m.values is exhausted: deferred close(ch)
MockFinish(i) ==
    /\ src[i] = "ready"
    /\ left[i] = 0
    /\ src' = [src EXCEPT ![i] = "closed"]
    /\ UNCHANGED <<auxVars, cfgVars, pc, nstarted, left, pend, lastSent, ctxDone,
                   tickReady, loopVars, termVars, result, exitVia,
                   chosen>>

\* case <-ctx.Done(): return, deferred close(ch)
MockCancel(i) ==
    /\ src[i] = "ready"
    /\ left[i] > 0
    /\ ctxDone
    /\ src' = [src EXCEPT ![i] = "closed"]
    /\ UNCHANGED <<auxVars, cfgVars, pc, nstarted, left, pend, lastSent, ctxDone,
                   tickReady, loopVars, termVars, result, exitVia,
                   chosen>>

\* ------------------------------------------------------------- realPinger
\* pinger.OnRecv: out <- pkt.Rtt.Milliseconds(), blocking
RealRecv(i) ==
    /\ src[i] = "running"
    /\ left[i] > 0
    /\ \E v \in Values : pend' = [pend EXCEPT ![i] = v]
    /\ src' = [src EXCEPT ![i] = "sending"]
    /\ left' = [left EXCEPT ![i] = left[i] - 1]
    /\ UNCHANGED <<auxVars, cfgVars, pc, nstarted, lastSent, ctxDone, tickReady,
                   loopVars, termVars, result, exitVia,
                   chosen>>

\* <-ctx.Done(); pinger.Stop(): pinger.Run returns, out stays open
RealStop(i) ==
    /\ src[i] = "running"
    /\ ctxDone
    /\ src' = [src EXCEPT ![i] = "stopped"]
    /\ UNCHANGED <<auxVars, cfgVars, pc, nstarted, left, pend, lastSent, ctxDone,
                   tickReady, loopVars, termVars, result, exitVia,
                   chosen>>

\* pinger.Run returns an error: reported on stderr, out stays open
RealRunErr(i) ==
    /\ src[i] = "running"
    /\ ~ctxDone
    /\ src' = [src EXCEPT ![i] = "stopped"]
    /\ UNCHANGED <<auxVars, cfgVars, pc, nstarted, left, pend, lastSent, ctxDone,
                   tickReady, loopVars, termVars, result, exitVia,
                   chosen>>

\* ------------------------------------------------------------------- Next
Next ==
    \/ \E i \in Sources : StartOk(i)
    \/ \E i \in Sources : StartFail(i)
    \/ LoopLimit
    \/ LoopCancel
    \/ LoopTick
    \/ \E i \in Sources : LoopSample(i)
    \/ \E i \in Sources : LoopClose(i)
    \/ Tick
    \/ Cancel
    \/ DeferCancel
    \/ \E i \in Sources : MockFinish(i)
    \/ \E i \in Sources : MockCancel(i)
    \/ \E i \in Sources : RealRecv(i)
    \/ \E i \in Sources : RealStop(i)
    \/ \E i \in Sources : RealRunErr(i)

Spec == Init /\ [][Next]_vars

\* runLoop takes a step whenever it can; reflect.Select picks among the ready
\* cases pseudo-randomly, so a case that stays ready is eventually chosen;
\* goroutines that can run do run.
LoopStep ==
    \/ \E i \in Sources : StartOk(i) \/ StartFail(i)
    \/ LoopLimit \/ LoopCancel \/ LoopTick
    \/ \E i \in Sources : LoopSample(i) \/ LoopClose(i)

FairSpec ==
    /\ Spec
    /\ WF_vars(LoopStep)
    /\ WF_vars(LoopCancel)
    /\ \A i \in Sources : WF_vars(LoopSample(i))
    /\ \A i \in Sources : WF_vars(LoopClose(i))
    /\ WF_vars(DeferCancel)
    /\ \A i \in Sources : WF_vars(MockFinish(i))
    /\ \A i \in Sources : WF_vars(MockCancel(i))
    /\ \A i \in Sources : WF_vars(RealStop(i))

\* ------------------------------------------------------------ run and main
\* runLoop has returned to run: the deferred print of the show-cursor
\* sequence runs first (it was deferred last)
DeferShow ==
    /\ caller = "run"
    /\ pc = "done"
    /\ stdout = <<"hide">>
    /\ stdout' = Append(stdout, "show")
    /\ UNCHANGED <<exitCode, fnVars, cfgVars, pc, nstarted, srcVars, ctxDone,
                   tickReady, loopVars, termVars, result, exitVia, chosen>>

CursorShown == Len(stdout) > 0 /\ stdout[Len(stdout)] = "show"

\* run: the deferred cancel() runs after the deferred show-cursor print
RunDeferCancel == CursorShown /\ DeferCancel

\* run has returned to main: os.Exit(1) on an error, else main returns; the
\* process is gone and its pinger goroutines with it
MainExit ==
    /\ caller = "run"
    /\ pc = "done"
    /\ CursorShown
    /\ ctxDone
    /\ exitCode = -1
    /\ exitCode' = IF result.kind = "error" THEN 1 ELSE 0
    /\ src' = [i \in Sources |-> IF src[i] = "unstarted" THEN src[i] ELSE "exited"]
    /\ UNCHANGED <<stdout, fnVars, cfgVars, pc, nstarted, left, pend, lastSent,
                   ctxDone, tickReady, loopVars, termVars, result, exitVia,
                   chosen>>

\* run is called
RunInit == Init /\ caller = "run"

\* the program: run with its two realPingers, until the process exits
RunNext ==
    \/ \E i \in Sources : StartOk(i)
    \/ \E i \in Sources : StartFail(i)
    \/ LoopLimit
    \/ LoopCancel
    \/ LoopTick
    \/ \E i \in Sources : LoopSample(i)
    \/ Tick
    \/ Cancel
    \/ \E i \in Sources : RealRecv(i)
    \/ \E i \in Sources : RealStop(i)
    \/ \E i \in Sources : RealRunErr(i)
    \/ DeferShow
    \/ RunDeferCancel
    \/ MainExit

RunSpec == RunInit /\ [][RunNext]_vars

\* ------------------------------------------------- appendData on its own
MaxCalls == 42                          \* appendData calls in a row, above maxLen

\* the histories of TestAppendData (empty, below maxLen, maxLen zeros) and
\* two with distinct elements, one element below maxLen and at maxLen
InitialHistories ==
    {<<>>, <<1, 2, 3>>, [k \in 1..maxLen |-> 0],
     [k \in 1..(maxLen - 1) |-> 100 + k], [k \in 1..maxLen |-> 100 + k]}

\* the samples of a run of calls: all the same, all distinct, alternating
InputSeqs ==
    {[k \in 1..MaxCalls |-> 10], [k \in 1..MaxCalls |-> 200 + k],
     [k \in 1..MaxCalls |-> IF k % 2 = 1 THEN 1 ELSE 12]}

AppendInit ==
    /\ InitLoop /\ caller = "test" /\ maxFrames = 0
    /\ nvalues = [i \in Sources |-> 0]
    /\ InitRun
    /\ hist \in InitialHistories
    /\ prevHist = <<>>
    /\ inputs = <<>>
    /\ todo \in InputSeqs
    /\ rfArgs = NoArgs
    /\ rfRet = NoFrame

\* data = appendData(data, rtt) with the next sample
AppendCall ==
    /\ todo # <<>>
    /\ hist' = appendData(hist, Head(todo))
    /\ prevHist' = hist
    /\ inputs' = Append(inputs, Head(todo))
    /\ todo' = Tail(todo)
    /\ UNCHANGED <<runVars, rfArgs, rfRet, cfgVars, pc, nstarted, srcVars,
                   ctxDone, tickReady, loopVars, termVars, result, exitVia,
                   chosen>>

AppendSpec == AppendInit /\ [][AppendCall]_vars

\* ------------------------------------------------ renderFrame on its own
\* a target's history: empty, one element, the two of
\* TestRenderFrameScaleChanges, the three of TestRenderFrame, five, a full one
HistoryChoices ==
    {<<>>, <<5>>, <<5, 10>>, <<5, 10, 15>>, <<8, 12, 18, 12, 8>>,
     [k \in 1..maxLen |-> 10]}
MaxRTTs == {0, 12, 35}

\* terminal widths: none, below 10, around 12 where the plot gets wider
\* than one column, a usual one
RenderWidths == {0, 8, 11, 12, 13, 80}

\* the arguments next to addresses: histories, latest RTTs (first higher,
\* second higher, equal), maxRTT and the terminal width
RenderArgs ==
    [d : [Sources -> HistoryChoices], r : [Sources -> Values],
     m : MaxRTTs, width : RenderWidths]

RenderInit ==
    /\ InitLoop /\ caller = "test" /\ maxFrames = 0
    /\ nvalues = [i \in Sources |-> 0]
    /\ InitRun
    /\ hist = <<>> /\ prevHist = <<>> /\ inputs = <<>> /\ todo = <<>>
    /\ rfArgs \in RenderArgs
    /\ rfRet = NoFrame

\* frame := renderFrame(addresses, data, rtts, maxRTT, width)
RenderCall ==
    /\ rfArgs # NoArgs
    /\ rfRet = NoFrame
    /\ rfRet' = renderFrame(addresses, rfArgs.d, rfArgs.r, rfArgs.m,
                            rfArgs.width)
    /\ UNCHANGED <<runVars, hist, prevHist, inputs, todo, rfArgs, cfgVars, pc,
                   nstarted, srcVars, ctxDone, tickReady, loopVars, termVars,
                   result, exitVia, chosen>>

RenderSpec == RenderInit /\ [][RenderCall]_vars

\* --------------------------------------------- runLoop past a full window
\* TestRunLoop's setting without a frame limit: the first mock source has
\* two values, the second one
WindowInit ==
    /\ Init
    /\ caller = "test" /\ maxFrames = 0
    /\ nvalues = <<2, 1>>

\* time.Ticker: ticks for more frames than a history holds
TickOn ==
    /\ pc = "loop"
    /\ ~tickReady
    /\ frameCount < MaxCalls
    /\ tickReady' = TRUE
    /\ UNCHANGED <<auxVars, cfgVars, pc, nstarted, srcVars, ctxDone, loopVars,
                   termVars, result, exitVia, chosen>>

WindowNext ==
    \/ \E i \in Sources : StartOk(i)
    \/ LoopTick
    \/ \E i \in Sources : LoopSample(i)
    \/ \E i \in Sources : LoopClose(i)
    \/ TickOn
    \/ \E i \in Sources : MockFinish(i)

WindowSpec == WindowInit /\ [][WindowNext]_vars

\* ------------------------------------------- run with a frame limit
\* run -frames L with L > 0
LimitInit ==
    /\ Init
    /\ caller = "run" /\ maxFrames > 0

LimitNext ==
    \/ \E i \in Sources : StartOk(i)
    \/ \E i \in Sources : StartFail(i)
    \/ LoopLimit
    \/ LoopCancel
    \/ LoopTick
    \/ \E i \in Sources : LoopSample(i)
    \/ Tick
    \/ Cancel
    \/ \E i \in Sources : RealRecv(i)
    \/ \E i \in Sources : RealStop(i)
    \/ \E i \in Sources : RealRunErr(i)

\* the loop takes a step whenever it can and the ticker keeps firing
LimitSpec ==
    /\ LimitInit /\ [][LimitNext]_vars
    /\ WF_vars(LoopStep)
    /\ WF_vars(Tick)

\* ------------------------------------------------------------------ claims
Last(q) == q[Len(q)]

\* the scenario of TestRunLoop: both mock sources have L = maxFrames values
\* and nobody cancels
BothDeliverL ==
    /\ caller = "test"
    /\ maxFrames > 0
    /\ \A i \in Sources : nvalues[i] = maxFrames

\* C1: with a frame limit L > 0 and two sources that each deliver L samples
\* and then close, runLoop returns nil with exactly L frames written to the
\* display sink.
C1_ExactlyLFrames ==
    (BothDeliverL /\ ~ctxDone /\ pc = "done" /\ result = Nil)
        => FramesWritten = maxFrames

\* C7: in every reachable state the frame counter equals the number of frames
\* that have been written to the display sink.
C7_CounterIsFrames == frameCount = FramesWritten

\* a source that can still hand a new sample to the loop
Producing(i) == src[i] \in {"ready", "running"}

WriteFailed == \E k \in DOMAIN termLog : termLog[k] \in {"WriteFrameErr", "WriteClrErr"}

\* C2: once the context is cancelled after the sources were started, runLoop
\* eventually returns nil and every source has stopped producing samples
\* (in the runs in which no Write of the Terminal fails, as in
\* TestRunLoopContextCancel).
C2_CancelReturnsNil ==
    [](~WriteFailed) =>
        ((ctxDone /\ pc = "loop")
            ~> (pc = "done" /\ result = Nil /\ \A i \in Sources : ~Producing(i)))

C2_Witness ==
    /\ ~WriteFailed /\ ctxDone
    /\ pc = "done" /\ exitVia = "ctx" /\ result = Nil
    /\ FramesWritten > 0
    /\ \A i \in Sources : ~Producing(i)

\* the scenario of TestRunLoopNonBlocking: a mock source with at least one
\* value and another one with more values
OneClosesEarly ==
    /\ caller = "test"
    /\ maxFrames > 0
    /\ \E i, j \in Sources : nvalues[i] >= 1 /\ nvalues[j] > nvalues[i]

FrameRendered == FramesWritten' > FramesWritten

Legend(i, v) == <<LegendLabel(i), Pad02(v)>>

C4_ReturnOnLastClose ==
    [][/\ \A i \in Sources : (chanValid[i] /\ ~chanValid'[i]) =>
            IF \E j \in Sources : j # i /\ chanValid[j]
            THEN pc' = "loop" /\ result' = NoResult
            ELSE pc' = "done" /\ result' = Nil /\ exitVia' = "closed"
       /\ (exitVia # "closed" /\ exitVia' = "closed") =>
            \E i \in Sources : chanValid[i] /\ AllClosed(chanValid')]_vars

\* a tick was processed after one channel was seen closed
C4_Witness ==
    /\ pc = "loop"
    /\ \E i, j \in Sources : ~chanValid[i] /\ chanValid[j]
    /\ chosen = 1
    /\ frameCount > 0

\* C5: a failing Start of source i ends runLoop with an error naming source
\* i's address; no later source is started and the display is untouched.
C5_StartFailure ==
    (result.kind = "error" /\ result.what = "start ping") =>
        /\ pc = "done"
        /\ result.addr = addresses[nstarted + 1]
        /\ \A j \in Sources : j > nstarted => src[j] = "unstarted"
        /\ termLog = <<>>
        /\ lastFrame = NoFrame
        /\ frameCount = 0

C5_Witness ==
    /\ result.kind = "error" /\ result.what = "start ping"
    /\ nstarted = 1
    /\ result.addr = addresses[2]

WriteErrOps == {"WriteFrameErr", "WriteClrErr"}

ErrWhat(op) == IF op = "WriteFrameErr" THEN "write frame" ELSE "clear screen"

\* C6: a failed write ends runLoop with that error at once: the frame counter
\* is not incremented, Flush is not called, nothing is processed afterwards.
C6_WriteErrorAborts ==
    /\ [](\A k \in DOMAIN termLog : termLog[k] \in WriteErrOps =>
            /\ k = Len(termLog)
            /\ pc = "done"
            /\ result.kind = "error" /\ result.what = ErrWhat(termLog[k]))
    /\ [][/\ (Len(termLog') > Len(termLog) /\ Last(termLog') \in WriteErrOps)
               => frameCount' = frameCount
          /\ pc = "done" =>
               UNCHANGED <<pc, result, loopVars, termVars, tickReady,
                           lastSent, chosen>>]_vars

C6_Witness ==
    /\ pc = "done"
    /\ result.kind = "error" /\ result.what = "clear screen"
    /\ Last(termLog) = "WriteClrErr"
    /\ frameCount > 0
    /\ chosen > 1

\* C8: after runLoop stopped at the frame limit or on all channels closed,
\* the cancellation is fired and no source is left blocked handing over a
\* sample.
C8_SourcesReleased ==
    [](( /\ caller = "run"
         /\ pc = "done"
         /\ exitVia \in {"limit", "closed"})
        => <>(ctxDone /\ \A i \in Sources : src[i] \in {"stopped", "closed"}))

\* C9: after cancellation every started source's channel is eventually
\* closed.
C9_ChannelCloses ==
    [](ctxDone => <>(\A i \in Sources : src[i] # "unstarted" => src[i] = "closed"))

TickProcessed == pc = "loop" /\ tickReady /\ ~tickReady'

SampleRecorded ==
    \E i \in Sources :
        \/ src[i] = "sending" /\ src'[i] = "running"
        \/ src[i] = "ready" /\ left'[i] < left[i]

\* C10 (as stated): in a loop step at which cancellation was already ready,
\* no tick is processed, no sample is recorded and no frame is rendered.
C10_CancelWins ==
    [][(pc = "loop" /\ ctxDone)
         => ~(TickProcessed \/ SampleRecorded \/ FrameRendered)]_vars

\* C10 (amended): the select has no priority; in a loop step that takes the
\* cancellation branch no tick is processed, no sample is recorded, no frame
\* is rendered and runLoop returns nil.
C10_CancelBranch ==
    [][(exitVia # "ctx" /\ exitVia' = "ctx") =>
         /\ ctxDone
         /\ pc' = "done" /\ result' = Nil
         /\ UNCHANGED <<loopVars, termVars, tickReady, srcVars>>]_vars

\* the cancellation branch was taken while a tick and a sample were ready
C10_Witness ==
    /\ pc = "done" /\ exitVia = "ctx"
    /\ tickReady
    /\ \E i \in Sources : chanValid[i] /\ Offers(i)

\* a mock source without values closes without ever delivering a sample
NeverDelivers(j) == caller = "test" /\ nvalues[j] = 0

\* C11 (as stated): while one target never delivers a sample, every sample
\* arriving from another target results in a frame being written.
C11_ArrivalRenders ==
    [][((\E j \in Sources : NeverDelivers(j)) /\ SampleRecorded)
         => termLog' # termLog]_vars

\* C11 (amended): as long as some target has not delivered a sample, no frame
\* is written at all, neither on a tick nor on another target's sample; the
\* samples are only recorded.
C11_NoFrameBeforeAllReported ==
    (\E j \in Sources : ~hasData[j]) =>
        /\ termLog \in {<<>>, <<"Clear", "Flush">>}
        /\ lastFrame = NoFrame
        /\ frameCount = 0
        /\ \A i \in Sources : data[i] = <<>>
        /\ \A i \in Sources : hasData[i] => rtts[i] = lastSent[i]

C11_Witness ==
    /\ pc = "loop"
    /\ termLog = <<"Clear", "Flush">>
    /\ \E i, j \in Sources :
         /\ NeverDelivers(j)
         /\ nvalues[i] = MaxSamples /\ left[i] = 0
         /\ hasData[i] /\ rtts[i] # 0

\* C12: whenever the process exits after the hide-cursor sequence, the
\* show-cursor sequence has been printed before; the process exits only after
\* runLoop has returned, so an interrupt ends it through the cancellation.
C12_CursorRestored ==
    /\ [](exitCode # -1 => (pc = "done" /\ stdout = <<"hide", "show">>))
    /\ [][(exitCode = -1 /\ exitCode' # -1) =>
            (pc = "done" /\ CursorShown /\ UNCHANGED stdout)]_vars
    /\ [][(~ctxDone /\ ctxDone' /\ pc # "done") => exitCode' = -1]_vars

\* the process has exited with code 0 after an interrupt
C12_Witness ==
    /\ exitCode = 0
    /\ exitVia = "ctx"
    /\ stdout = <<"hide", "show">>

\* C13: maxRTT never decreases in any step, a recorded sample is never above
\* the maxRTT of the state it leads to, and in every state maxRTT is at least
\* the sample last received from each target; together: maxRTT is at least
\* every sample received so far.
C13_MaxMonotone ==
    /\ [](\A i \in Sources : maxRTT >= lastSent[i] /\ maxRTT >= rtts[i])
    /\ [][maxRTT' >= maxRTT]_vars
    /\ [][\A i \in Sources :
            (lastSent'[i] # lastSent[i] \/ left'[i] < left[i]
               \/ (src[i] = "sending" /\ src'[i] = "running"))
            => maxRTT' >= lastSent'[i]]_vars

\* a sample below the running maximum has replaced the sample that set it
C13_Witness ==
    /\ maxRTT = 12
    /\ \E i \in Sources : hasData[i] /\ lastSent[i] = 1
    /\ \A j \in Sources : rtts[j] < maxRTT

\* C14: appendData(H, r) on a history H of at most maxLen elements has length
\* min(len(H) + 1, maxLen), ends with r, and its other elements are the
\* trailing elements of H in their order; on the empty history it is <<r>>.
C14_AppendWindow ==
    inputs # <<>> =>
        LET r == Last(inputs)
            n == Len(hist)
            shift == Len(prevHist) - (n - 1)
        IN  /\ n = Min(Len(prevHist) + 1, maxLen)
            /\ hist[n] = r
            /\ shift \in {0, 1}
            /\ \A k \in 1..(n - 1) : hist[k] = prevHist[shift + k]
            /\ (prevHist = <<>> => hist = <<r>>)

\* a sample was appended to a full history of distinct elements
C14_Witness ==
    /\ Len(prevHist) = maxLen /\ Len(hist) = maxLen
    /\ hist[maxLen] = Last(inputs)
    /\ hist[1] = prevHist[2] /\ hist[1] # prevHist[1]

\* C15: after N >= maxLen calls in a row on a history that started with at
\* most maxLen elements, the history is the maxLen most recent samples in the
\* order they were appended.
C15_LastWindow ==
    Len(inputs) >= maxLen =>
        /\ Len(hist) = maxLen
        /\ hist = SubSeq(inputs, Len(inputs) - maxLen + 1, Len(inputs))

\* more than maxLen distinct samples were appended: the first ones are gone
C15_Witness ==
    /\ Len(inputs) > maxLen
    /\ hist[1] = inputs[Len(inputs) - maxLen + 1]
    /\ hist[1] # inputs[1]
    /\ hist[maxLen] = Last(inputs)

\* renderFrame has returned
Rendered == rfRet # NoFrame

\* "%02d" of a value below 100, digit by digit
TwoDigits(n) == <<n \div 10, n % 10>>

\* C16: the frame renderFrame returns has the waiting placeholder, the raw
\* legends and no graph when some target's history is empty, and the graph of
\* all histories without the placeholder when none is empty; the header and
\* the exit footer are there in both cases.
C16_WaitingOrGraph ==
    Rendered =>
        /\ (\E i \in Sources : rfArgs.d[i] = <<>>) =>
              /\ rfRet.waiting
              /\ rfRet.series = <<>>
              /\ Len(rfRet.legends) = NumSources
        /\ (\A i \in Sources : rfArgs.d[i] # <<>>) =>
              /\ ~rfRet.waiting
              /\ \A i \in Sources : rfRet.series[i] = rfArgs.d[i]
        /\ rfRet.header = <<<<addresses[1], "gateway">>,
                            <<addresses[2], "CloudFlare DNS">>>>
        /\ rfRet.footer = "Press Control-C to exit"

\* one history is empty and the other is not: placeholder, no graph
C16_Witness ==
    /\ Rendered
    /\ rfArgs.d[1] # <<>> /\ rfArgs.d[2] = <<>>
    /\ rfRet.waiting /\ rfRet.series = <<>>

\* C17: the frame has both legends, the first target's (Gateway) before the
\* second's (CloudFlare), each with its own RTT, whichever RTT is higher.
C17_LegendOrder ==
    Rendered =>
        /\ Len(rfRet.legends) = 2
        /\ rfRet.legends[1] = <<"Gateway", TwoDigits(rfArgs.r[1])>>
        /\ rfRet.legends[2] = <<"CloudFlare", TwoDigits(rfArgs.r[2])>>

\* the first target's RTT is the higher one and the graph is plotted
C17_Witness ==
    /\ Rendered
    /\ rfArgs.r[1] > rfArgs.r[2]
    /\ ~rfRet.waiting
    /\ rfRet.legends[1][1] = "Gateway" /\ rfRet.legends[2][1] = "CloudFlare"

\* the loop has received a sample from source i in this step
Recorded(i) ==
    \/ src[i] = "sending" /\ src'[i] = "running"
    \/ src[i] = "ready" /\ left'[i] < left[i]

\* the sample source i hands over in this step
SampleOf(i) == IF src[i] = "sending" THEN pend[i] ELSE lastSent'[i]

\* one render was started in this step
RenderStarted ==
    /\ Len(termLog') > Len(termLog)
    /\ SubSeq(termLog', 1, Len(termLog)) = termLog
    /\ termLog'[Len(termLog) + 1] = "MoveCursor"
    /\ CountOps(termLog', "MoveCursor") = CountOps(termLog, "MoveCursor") + 1

\* C18: a sample v from target i becomes target i's latest RTT, sets its
\* has-data mark, makes maxRTT the maximum of maxRTT and v, leaves the other
\* targets' latest RTTs and marks alone, and a frame is rendered in the same
\* step exactly when every target has its mark after the update; a mark is
\* never cleared.
C18_SampleArrival ==
    /\ [][\A i \in Sources : Recorded(i) =>
            LET v == SampleOf(i)
            IN  /\ rtts'[i] = v
                /\ hasData'[i]
                /\ maxRTT' = Max(maxRTT, v)
                /\ \A j \in Sources \ {i} :
                      rtts'[j] = rtts[j] /\ hasData'[j] = hasData[j]
                /\ IF \A j \in Sources : hasData'[j]
                   THEN /\ RenderStarted
                        /\ FrameRendered => lastFrame'.legends[i] = Legend(i, v)
                   ELSE UNCHANGED termVars]_vars
    /\ [][\A i \in Sources : hasData[i] => hasData'[i]]_vars

\* the sample that completed the marks was rendered at once, before any tick
\* had appended to a history
C18_Witness ==
    /\ chosen >= 2
    /\ \A j \in Sources : hasData[j]
    /\ termLog = <<"Clear", "Flush", "MoveCursor", "WriteFrame", "WriteClr",
                   "Flush">>
    /\ lastFrame.waiting
    /\ lastFrame.legends[chosen - 1] = Legend(chosen - 1, rtts[chosen - 1])

\* the loop took its close branch or its cancellation branch in this step
CloseOrCancel == chanValid' # chanValid \/ (exitVia # "ctx" /\ exitVia' = "ctx")

\* C19: the histories change only in a tick with every target marked; that
\* tick appends to each history, also a closed source's, one element equal
\* to that target's latest RTT, and then renders the appended histories; a
\* sample arrival, a close and a cancellation leave the histories unchanged.
C19_HistoriesGrowOnTick ==
    /\ [][data' # data => (TickProcessed /\ \A j \in Sources : hasData[j])]_vars
    /\ [][(TickProcessed /\ \A j \in Sources : hasData[j]) =>
            /\ \A i \in Sources : data'[i] = Append(data[i], rtts[i])
            /\ RenderStarted
            /\ FrameRendered => lastFrame'.series = data']_vars
    /\ [][(SampleRecorded \/ CloseOrCancel) => UNCHANGED data]_vars

\* the last step was a tick that appended the last RTT of a closed source
C19_Witness ==
    /\ chosen = 1
    /\ \A j \in Sources : hasData[j]
    /\ \E i \in Sources :
         /\ src[i] = "closed" /\ ~chanValid[i]
         /\ data[i] # <<>> /\ Last(data[i]) = lastSent[i]
         /\ lastFrame.series = data

\* C20: a tick taken while some target has never delivered a sample changes
\* no history, latest RTT, mark, maxRTT or frame counter, writes nothing to
\* the terminal and does not end the loop.
C20_TickNoOp ==
    [][(TickProcessed /\ \E j \in Sources : ~hasData[j]) =>
         /\ UNCHANGED <<data, rtts, hasData, maxRTT, frameCount, termVars>>
         /\ UNCHANGED <<pc, result>>]_vars

\* the last step was a tick while one target had data and the other had none
C20_Witness ==
    /\ chosen = 1 /\ pc = "loop"
    /\ \E i, j \in Sources : hasData[i] /\ ~hasData[j] /\ rtts[i] # 0
    /\ termLog = <<"Clear", "Flush">>
    /\ \A i \in Sources : data[i] = <<>>

\* the operations of one frame, in order
FrameOps == <<"MoveCursor", "WriteFrame", "WriteClr", "Flush">>

\* the k-th operation after the startup's Clear and Flush is the one the
\* frame sequence has at that place, or the failing write that replaces it
InFrameOrder(k) ==
    LET op == termLog[2 + k]
        place == ((k - 1) % 4) + 1
    IN  \/ op = FrameOps[place]
        \/ place = 2 /\ op = "WriteFrameErr"
        \/ place = 3 /\ op = "WriteClrErr"

\* C21: the Terminal sees Clear, Flush once, only after every source has
\* started and before any frame; then frame after frame MoveCursor, the
\* frame text, the clear-to-end-of-screen sequence, Flush, one frame's
\* operations finished before the next one's begin (a failing write ends the
\* last sequence, and the log, early).
C21_DisplayOrder ==
    /\ (pc = "starting" \/ exitVia = "start") <=> termLog = <<>>
    /\ termLog # <<>> =>
          /\ nstarted = NumSources
          /\ \A i \in Sources : src[i] # "unstarted"
          /\ Len(termLog) >= 2
          /\ termLog[1] = "Clear" /\ termLog[2] = "Flush"
          /\ CountOps(termLog, "Clear") = 1
          /\ \A k \in 1..(Len(termLog) - 2) : InFrameOrder(k)
          /\ \/ (Len(termLog) - 2) % 4 = 0
             \/ termLog[Len(termLog)] \in WriteErrOps
          /\ FramesWritten = (Len(termLog) - 2) \div 4

\* two whole frames have been written after the startup's Clear and Flush
C21_Witness ==
    /\ pc = "loop"
    /\ termLog = <<"Clear", "Flush"
                   >> \o FrameOps \o FrameOps

\* C22: a history never holds more than maxLen elements; an append to a
\* history of maxLen elements removes its oldest element and nothing else,
\* the others keeping their order in front of the new element.
C22_WindowFifo ==
    /\ [](\A i \in Sources : Len(data[i]) <= maxLen)
    /\ [][\A i \in Sources :
            (Len(data[i]) = maxLen /\ TickProcessed /\ \A j \in Sources : hasData[j])
            => /\ Len(data'[i]) = maxLen
               /\ \A k \in 1..(maxLen - 1) : data'[i][k] = data[i][k + 1]
               /\ data'[i][maxLen] = rtts[i]]_vars

\* the first history has lost its oldest element: 41 frames were counted and
\* the 40 elements kept are the older sample followed by the newer one
C22_Witness ==
    /\ frameCount = maxLen + 1
    /\ Len(data[1]) = maxLen
    /\ data[1][1] # data[1][maxLen]
    /\ data[1][maxLen] = rtts[1]

\* the length of the longest of the histories renderFrame was given
Longest == Max(Len(rfArgs.d[1]), Len(rfArgs.d[2]))

\* C23: the plot width renderFrame uses is
\* max(1, min(width - 10, longest history - 1)); it is 1 for every width
\* below 12 and whenever the longest history has at most 2 elements.
C23_PlotWidth ==
    Rendered =>
        /\ rfRet.graphWidth = Max(1, Min(rfArgs.width - 10, Longest - 1))
        /\ rfArgs.width < 12 => rfRet.graphWidth = 1
        /\ Longest <= 2 => rfRet.graphWidth = 1

\* the terminal is the limit: 13 columns leave 3 for a 5-element history
C23_Witness ==
    /\ Rendered
    /\ rfArgs.width = 13 /\ Longest = 5 /\ Len(rfArgs.d[1]) = 3
    /\ rfRet.graphWidth = 3

\* the loop processes a tick with every target marked in this step
ReadyTick == TickProcessed /\ \A j \in Sources : hasData[j]

\* the ticks processed so far with every target marked: the ones frameCount
\* counts, and the one whose render failed and ended the loop
ReadyTicks ==
    frameCount + (IF exitVia = "render" /\ chosen = 1 THEN 1 ELSE 0)

\* C24: all histories have the same length, min(T, maxLen), where T is the
\* number of ticks processed so far at which every target had data: T grows
\* by one in exactly those steps, and so does every history below maxLen.
C24_HistoryLength ==
    /\ [](\A i \in Sources : Len(data[i]) = Min(ReadyTicks, maxLen))
    /\ [][ReadyTicks' = ReadyTicks + (IF ReadyTick THEN 1 ELSE 0)]_vars
    /\ [][\A i \in Sources :
            Len(data'[i]) = IF ReadyTick THEN Min(Len(data[i]) + 1, maxLen)
                            ELSE Len(data[i])]_vars

\* more ticks than the window holds, the second source closed long ago
C24_Witness ==
    /\ pc = "loop"
    /\ ReadyTicks = maxLen + 2
    /\ ~chanValid[2]
    /\ \A i \in Sources : Len(data[i]) = maxLen

\* every point of the series plotted in frame f is strictly below the upper
\* bound given to the plot (both in tenths of a millisecond)
BelowUpperBound(f) ==
    \A i \in DOMAIN f.series : \A k \in DOMAIN f.series[i] :
        10 * f.series[i][k] < f.upper10

\* C25: every element of every history and every latest RTT is at most
\* maxRTT, and the frame of every render has all its plotted points strictly
\* below its upper bound maxRTT + padding, the padding being at least 1.
C25_BelowMax ==
    /\ \A i \in Sources :
          /\ rtts[i] <= maxRTT
          /\ \A k \in DOMAIN data[i] : data[i][k] <= maxRTT
    /\ lastFrame # NoFrame =>
          /\ BelowUpperBound(lastFrame)
          /\ \E m \in 0..maxRTT :
                lastFrame.upper10 = 10 * m + Max(10, m)

\* a frame plots a point at the running maximum while the other history is
\* below it
C25_Witness ==
    /\ maxRTT = 12
    /\ ~lastFrame.waiting
    /\ lastFrame.upper10 = 132
    /\ \E i, j \in Sources :
         /\ \E k \in DOMAIN lastFrame.series[i] : lastFrame.series[i][k] = 12
         /\ \A k \in DOMAIN lastFrame.series[j] : lastFrame.series[j][k] = 1

\* the loop finds source i's channel closed in this step
CloseSeen(i) == chanValid[i] /\ ~chanValid'[i]

\* C26: the step that finds a source's channel closed records no sample:
\* latest RTTs, has-data marks, maxRTT, histories and the frame counter are
\* unchanged and nothing is written to the Terminal; from then on the
\* channel stays out of the select: it is never chosen again, neither with a
\* sample nor as closed.
C26_CloseRecordsNothing ==
    /\ [][\A i \in Sources : CloseSeen(i) =>
            /\ src[i] = "closed"
            /\ chosen' = i + 1
            /\ UNCHANGED <<rtts, hasData, maxRTT, data, frameCount, termVars>>]_vars
    /\ [][\A i \in Sources : (pc = "loop" /\ ~chanValid[i]) =>
            /\ ~chanValid'[i]
            /\ ~Recorded(i)
            /\ rtts'[i] = rtts[i] /\ hasData'[i] = hasData[i]
            /\ chosen' = i + 1 => UNCHANGED <<chosen, pc, loopVars, termVars>>]_vars

\* source 1 was just found closed while source 2 is open: its last RTT and
\* its mark are kept, and the frames written so far are all there is
C26_Witness ==
    /\ pc = "loop"
    /\ chosen = 2
    /\ ~chanValid[1] /\ chanValid[2]
    /\ hasData[1] /\ rtts[1] = 12 /\ lastSent[1] = 12
    /\ hasData[2]
    /\ FramesWritten > 0

\* C27: with a frame limit, sources that never close, no failing write and
\* every target delivering a sample at some point, runLoop eventually
\* returns nil, whatever samples arrive between the ticks.
C27_LimitTerminates ==
    ([](~WriteFailed) /\ <>(\A i \in Sources : hasData[i]))
        => <>(pc = "done" /\ result = Nil)

\* runLoop returned at the limit of two frames after more than two frames
\* were written, every sample of both sources received, and nobody cancelled
C27_Witness ==
    /\ pc = "done" /\ exitVia = "limit" /\ result = Nil
    /\ ~ctxDone
    /\ maxFrames = 2 /\ frameCount = 2
    /\ FramesWritten > 2
    /\ \A i \in Sources : left[i] = 0 /\ src[i] = "running"

====
